---- MODULE Spec2Model ----
(***************************************************************************)
(* CBT_System: exam attempts, submission and examiner grading.             *)
(*                                                                         *)
(* The model follows src/Exam/views.py statement by statement.  Every      *)
(* request is served by one of the workers in Procs; a request is a        *)
(* sequence of database statements, and the statements of different        *)
(* requests interleave.  The database is a relational store with row       *)
(* locks at READ COMMITTED isolation: a statement sees the committed rows  *)
(* overlaid with the writes of its own transaction, a write takes the row  *)
(* lock until the transaction ends, and a writer of a locked row waits.    *)
(***************************************************************************)
EXTENDS Integers, Sequences, FiniteSets, TLC

(***************************************************************************)
(* Bounds of the model.                                                    *)
(***************************************************************************)
MaxAttempts == 2        \* ExamAttempt rows that may be created
MaxCalls == 4           \* requests that get as far as writing, in one behaviour
MaxCallsLong == 5       \* the same, in the behaviours of SpecLong

(***************************************************************************)
(* Nullable values: None is NULL / Python None, Some(v) a present value.   *)
(***************************************************************************)
None == <<>>
Some(v) == <<v>>
IsNull(x) == x = <<>>
Val(x) == x[1]

(***************************************************************************)
(* The catalog (users, exams, sections, questions, options).  It is held   *)
(* fixed: users 1 and 2 are students, user 3 is an examiner and an exam     *)
(* manager.  Sections 2 and 4 have the same name.  Exam 1 (for              *)
(* the level of student 1) has the OBJECTIVE section 1 = {q1} and the      *)
(* THEORY sections 2 = {q2, q3} and 4 = {q3}; exam 2 (for the level of     *)
(* student 2) has the empty section 3; exam 3 is not published.  Question  *)
(* 4 is in no section; options 1 (correct) and 2 belong to question 1,     *)
(* option 3 to question 4.                                                 *)
(***************************************************************************)
Procs == {1, 2, 3}
Users == {1, 2, 3}
Exams == {1, 2, 3}
Sections == {1, 2, 3, 4}
Questions == {1, 2, 3, 4}
Options == {1, 2, 3}

is_student(u) == u \in {1, 2}
is_examiner(u) == u = 3
is_exam_manager(u) == u = 3
level(u) == IF u = 1 THEN "ND1" ELSE IF u = 2 THEN "ND2" ELSE ""

is_published(e) == e \in {1, 2}
target_level(e) == IF e = 1 THEN "ND1" ELSE IF e = 2 THEN "ND2" ELSE ""

exam_id(s) == IF s = 3 THEN 2 ELSE 1
ExamSections(e) == {s \in Sections : exam_id(s) = e}
section_name(s) == IF s = 1 THEN "Objective" ELSE IF s = 3 THEN "Part" ELSE "Theory"
\* the questions of the sections when the exams are set up
InitialQuestions(s) ==
    IF s = 1 THEN {1} ELSE IF s = 2 THEN {2, 3} ELSE IF s = 4 THEN {3} ELSE {}

question_type(q) == IF q \in {1, 4} THEN "OBJECTIVE" ELSE "THEORY"
maximum_mark(q) == IF q = 1 THEN 2 ELSE 3

OptionQuestion(o) == IF o = 3 THEN 4 ELSE 1
is_correct(o) == o = 1

AttemptIds == 1..MaxAttempts
AnswerKeys == AttemptIds \X Questions
ScoreKeys == AttemptIds \X Sections

VARIABLES
    attempts,       \* committed ExamAttempt rows, a sequence indexed by pk
    answers,        \* committed StudentAnswer rows by (attempt, question)
    sectionScores,  \* committed SectionScore.score by (attempt, section)
    proc,           \* per worker: the request it serves and its transaction
    calls,          \* number of requests that got as far as writing
    submittedOnce,  \* attempts on which a submit has already succeeded
    section_questions   \* ExamSection.questions: the questions of each section

\* section.questions
SectionQuestions(s) == IF s \in Sections THEN section_questions[s] ELSE {}

vars == <<attempts, answers, sectionScores, proc, calls, submittedOnce, section_questions>>

(***************************************************************************)
(* Request payloads.                                                       *)
(***************************************************************************)
Ans(s, q, o, e) ==
    [section |-> s, question |-> q, selected_option |-> o, essay_answer |-> Some(e)]

\* an answer whose essay_answer is JSON null (allow_null=True)
AnsNullEssay(s, q, o) ==
    [section |-> s, question |-> q, selected_option |-> o, essay_answer |-> None]

\* every question of exam 1, the correct option for question 1, question 3
\* under section 4
PayloadOk == <<Ans(1, 1, Some(1), ""), Ans(2, 2, None, "x"), Ans(4, 3, None, "x")>>
\* every question of exam 1, no option for question 1, question 3 under
\* section 2 and with a blank essay
PayloadNoOption == <<Ans(2, 3, None, " "), Ans(2, 2, None, "x"), Ans(1, 1, None, "")>>
\* questions 2 and 3 are missing
PayloadMissing == <<Ans(1, 1, Some(1), "")>>
\* the last answer names question 3 under section 1, which does not hold it
PayloadNotInSection == <<Ans(1, 1, Some(1), ""), Ans(2, 2, None, "x"), Ans(1, 3, None, "x")>>
\* every question of exam 2 once section 3 holds question 4
PayloadExam2 == <<Ans(3, 4, Some(3), "")>>
\* complete once section 2 holds question 4 too; question 4 is stored, then
\* question 1 is not in section 2
PayloadExtra ==
    <<Ans(2, 4, Some(3), ""), Ans(2, 1, Some(1), ""), Ans(2, 2, None, "x"),
      Ans(4, 3, None, "x")>>
\* complete; questions 1 and 3 are named twice, with other values
PayloadDup ==
    <<Ans(1, 1, Some(2), ""), Ans(2, 3, None, "x"), Ans(2, 2, None, "x"),
      Ans(1, 1, Some(1), ""), Ans(4, 3, None, "y")>>
\* complete, but the last answer has a null essay_answer
PayloadNullEssay ==
    <<Ans(1, 1, Some(1), ""), Ans(2, 2, None, "x"), AnsNullEssay(4, 3, None)>>
\* complete, with option 2 of question 1, which is not the correct one
PayloadWrongOption ==
    <<Ans(1, 1, Some(2), ""), Ans(2, 2, None, "x"), Ans(4, 3, None, "x")>>
\* the second answer names question 1 under section 2, which does not hold it
PayloadLateReject ==
    <<Ans(4, 3, None, "x"), Ans(2, 1, Some(1), ""), Ans(2, 2, None, "x")>>
\* the second answer selects option 3, an option of question 4
PayloadBadOption == <<Ans(2, 2, None, "x"), Ans(1, 1, Some(3), ""), Ans(4, 3, None, "x")>>
\* the last answer names section 3, a section of exam 2
PayloadOtherExam == <<Ans(1, 1, Some(2), ""), Ans(2, 2, None, "x"), Ans(3, 3, None, "x")>>
\* the second answer names question 9, which does not exist
PayloadUnknownQuestion ==
    <<Ans(1, 1, Some(2), ""), Ans(2, 9, None, "x"), Ans(2, 2, None, "x"), Ans(4, 3, None, "x")>>
\* the correct option for question 1, then question 9, which does not exist
PayloadEarlyReject ==
    <<Ans(1, 1, Some(1), ""), Ans(2, 9, None, "x"), Ans(2, 2, None, "x"), Ans(4, 3, None, "x")>>
\* the first answer names section 9, which does not exist
PayloadUnknownSection == <<Ans(9, 1, Some(1), ""), Ans(2, 2, None, "x"), Ans(4, 3, None, "x")>>

Payloads ==
    {<<>>, PayloadOk, PayloadNoOption, PayloadMissing, PayloadNotInSection, PayloadLateReject, PayloadNullEssay,
     PayloadExam2, PayloadDup, PayloadEarlyReject,
     PayloadWrongOption,
     PayloadBadOption, PayloadOtherExam, PayloadUnknownQuestion,
     PayloadUnknownSection}

\* mark_gained of a grade-answer request: absent, negative, in range, too big
MarkInputs == {None, Some(-1), Some(1), Some(4)}

(***************************************************************************)
(* Rows.                                                                   *)
(***************************************************************************)
AttemptRow(e, u) ==
    [exam |-> e, student |-> u, status |-> "IN_PROGRESS",
     total_score |-> None, submitted_at |-> None]

AnswerRow(s) ==
    [section |-> s, selected_option |-> None, essay_answer |-> None,
     mark_gained |-> None, graded_by |-> None, graded_at |-> None]

(***************************************************************************)
(* A worker.  wrAnswers, wrScores and wrAttempts are the uncommitted       *)
(* writes of its transaction, locked the attempt rows it holds through     *)
(* select_for_update.                                                      *)
(***************************************************************************)
NoWrites(K) == [k \in K |-> None]

IdleProc ==
    [pc |-> "idle", op |-> "none", res |-> "", user |-> 0, exam |-> 0,
     attempt_id |-> 0, answers |-> <<>>, i |-> 0,
     answer_id |-> <<0, 0>>, mark |-> None, sa |-> None, attempt |-> None,
     section_total |-> 0, total |-> 0, ungraded_count |-> 0,
     graded_count |-> 0, pending_count |-> 0, missing_questions |-> {},
     rival |-> FALSE, peer |-> FALSE, response |-> None, question_ids |-> <<>>,
     wrAnswers |-> NoWrites(AnswerKeys), wrScores |-> NoWrites(ScoreKeys),
     wrAttempts |-> NoWrites(AttemptIds), locked |-> {}]

Init ==
    /\ attempts = <<>>
    /\ answers = [k \in AnswerKeys |-> None]
    /\ sectionScores = [k \in ScoreKeys |-> None]
    /\ proc = [p \in Procs |-> IdleProc]
    /\ calls = 0
    /\ submittedOnce = {}
    /\ section_questions = [s \in Sections |-> InitialQuestions(s)]

\* the response of a finished request; only what the response carries is kept
Done(p, r) == [IdleProc EXCEPT !.pc = "done", !.op = proc[p].op, !.res = r,
                               !.user = proc[p].user,
                               !.attempt_id = proc[p].attempt_id,
                               !.answer_id = proc[p].answer_id,
                               !.rival = proc[p].rival, !.peer = proc[p].peer]

(***************************************************************************)
(* The store.                                                              *)
(***************************************************************************)
\* rows as the statements of worker p see them
VisAnswers(p) ==
    [k \in AnswerKeys |->
        IF IsNull(proc[p].wrAnswers[k]) THEN answers[k] ELSE proc[p].wrAnswers[k]]

VisScores(p) ==
    [k \in ScoreKeys |->
        IF IsNull(proc[p].wrScores[k]) THEN sectionScores[k] ELSE proc[p].wrScores[k]]

\* row locks held by worker p
AttemptLocks(p) ==
    proc[p].locked \cup {a \in AttemptIds : ~IsNull(proc[p].wrAttempts[a])}
AnswerLocks(p) == {k \in AnswerKeys : ~IsNull(proc[p].wrAnswers[k])}
ScoreLocks(p) == {k \in ScoreKeys : ~IsNull(proc[p].wrScores[k])}

AttemptFree(p, a) == \A q \in Procs \ {p} : a \notin AttemptLocks(q)
AnswerFree(p, k) == \A q \in Procs \ {p} : k \notin AnswerLocks(q)
ScoreFree(p, k) == \A q \in Procs \ {p} : k \notin ScoreLocks(q)

\* the committed rows once the transaction of worker p has committed
CommittedAttempts(p) ==
    [a \in 1..Len(attempts) |->
        IF IsNull(proc[p].wrAttempts[a]) THEN attempts[a]
        ELSE Val(proc[p].wrAttempts[a])]

\* Sum('mark_gained') over the rows of K with a mark: NULL when there is none
RECURSIVE SumMarks(_, _)
SumMarks(rows, K) ==
    IF K = {} THEN 0
    ELSE LET k == CHOOSE x \in K : TRUE
         IN Val(Val(rows[k]).mark_gained) + SumMarks(rows, K \ {k})

Marked(rows, K) ==
    {k \in K : ~IsNull(rows[k]) /\ ~IsNull(Val(rows[k]).mark_gained)}
Unmarked(rows, K) ==
    {k \in K : ~IsNull(rows[k]) /\ IsNull(Val(rows[k]).mark_gained)}

AggregateSum(rows, K) ==
    IF Marked(rows, K) = {} THEN None ELSE Some(SumMarks(rows, Marked(rows, K)))

\* Python's "x or 0"
OrZero(x) == IF IsNull(x) \/ Val(x) = 0 THEN 0 ELSE Val(x)

AttemptKeys(a) == {k \in AnswerKeys : k[1] = a}
SectionKeys(rows, a, s) ==
    {k \in AttemptKeys(a) : ~IsNull(rows[k]) /\ Val(rows[k]).section = s}

Bump(p, rec) == proc' = [proc EXCEPT ![p] = rec]

(***************************************************************************)
(* POST /student-exams/{pk}/start                                          *)
(***************************************************************************)
InProgress(e, u) ==
    {a \in 1..Len(attempts) :
        /\ attempts[a].exam = e
        /\ attempts[a].student = u
        /\ attempts[a].status = "IN_PROGRESS"}

Min(S) == CHOOSE x \in S : \A y \in S : x <= y

\* filter(exam, student, status="IN_PROGRESS").first()
existing(e, u) == IF InProgress(e, u) = {} THEN None ELSE Some(Min(InProgress(e, u)))

Creating == Cardinality({q \in Procs : proc[q].pc = "start_create"})

\* the request up to and including the lookup of an existing attempt
Start(p, u, pk) ==
    /\ proc[p].pc = "idle"
    /\ LET me == [proc[p] EXCEPT !.op = "start", !.user = u, !.exam = pk]
           fin(r) == [IdleProc EXCEPT !.pc = "done", !.op = "start", !.res = r,
                                      !.user = u, !.exam = pk]
       IN  IF pk \notin Exams \/ ~is_published(pk)
             THEN Bump(p, fin("exam_not_found_404"))
           ELSE IF ~is_student(u)
             THEN Bump(p, fin("not_student_403"))
           ELSE IF target_level(pk) # "" /\ target_level(pk) # level(u)
             THEN Bump(p, fin("wrong_level_403"))
           ELSE IF ~IsNull(existing(pk, u))
             THEN Bump(p, [fin("existing_200") EXCEPT
                              !.attempt_id = Val(existing(pk, u))])
           ELSE /\ Len(attempts) + Creating < MaxAttempts
                /\ Bump(p, [me EXCEPT !.pc = "start_create"])
    /\ UNCHANGED <<attempts, answers, sectionScores, calls, submittedOnce, section_questions>>

\* ExamAttempt.objects.create(exam=exam, student=user)
StartCreate(p) ==
    /\ proc[p].pc = "start_create"
    /\ calls' = calls + 1
    /\ attempts' = Append(attempts, AttemptRow(proc[p].exam, proc[p].user))
    /\ Bump(p, [IdleProc EXCEPT !.pc = "done", !.op = "start",
                                !.res = "created_201", !.user = proc[p].user,
                                !.exam = proc[p].exam,
                                !.attempt_id = Len(attempts) + 1])
    /\ UNCHANGED <<answers, sectionScores, submittedOnce, section_questions>>

\* the response has been sent; the worker is free again
Return(p) ==
    /\ proc[p].pc = "done"
    /\ Bump(p, IdleProc)
    /\ UNCHANGED <<attempts, answers, sectionScores, calls, submittedOnce, section_questions>>

(***************************************************************************)
(* GET /student-exams/{pk}/questions                                       *)
(***************************************************************************)
\* the is_correct flags of the catalog
CorrectFlags == [o \in Options |-> is_correct(o)]

\* the elements of a set of numbers in ascending order
Ascending(S) ==
    [i \in 1..Cardinality(S) |->
        CHOOSE x \in S : Cardinality({y \in S : y < x}) = i - 1]

\* the Option rows of question q in a catalog with the is_correct flags c
OptionRows(c, q) ==
    LET ids == Ascending({o \in Options : OptionQuestion(o) = q})
    IN  [i \in 1..Len(ids) |-> [id |-> ids[i], question |-> q, is_correct |-> c[ids[i]]]]

\* an entry of 'options' that carries the answer key
OptionDataWithKey(opt) == [id |-> opt.id, is_correct |-> opt.is_correct]

\* an entry of 'options': id, text_option, image_option
OptionData(opt) == [id |-> opt.id]

\* q_data
QuestionData(c, q) ==
    [id |-> q, question_type |-> question_type(q), maximum_mark |-> maximum_mark(q),
     options |-> IF question_type(q) = "OBJECTIVE"
                   THEN Some([i \in 1..Len(OptionRows(c, q)) |->
                                 OptionData(OptionRows(c, q)[i])])
                   ELSE None]

\* an entry of sections_data
SectionData(c, s) ==
    LET qs == Ascending(SectionQuestions(s))
    IN  [id |-> s, questions |-> [i \in 1..Len(qs) |-> QuestionData(c, qs[i])]]

ErrorResponse(st) == [status |-> st, exam_id |-> 0, attempt_id |-> 0, sections |-> <<>>]

\* the response of get_exam_questions to user u for exam pk, in a catalog
\* with the is_correct flags c
QuestionsResponse(c, u, pk) ==
    IF pk \notin Exams \/ ~is_published(pk) THEN ErrorResponse(404)
    ELSE IF IsNull(existing(pk, u)) THEN ErrorResponse(400)
    ELSE LET ss == Ascending(ExamSections(pk))
         IN  [status |-> 200, exam_id |-> pk, attempt_id |-> Val(existing(pk, u)),
              sections |-> [i \in 1..Len(ss) |-> SectionData(c, ss[i])]]

get_exam_questions(p, u, pk) ==
    /\ proc[p].pc = "idle"
    /\ Bump(p, [IdleProc EXCEPT !.pc = "done", !.op = "questions", !.res = "read",
                                !.user = u, !.exam = pk,
                                !.response = Some(QuestionsResponse(CorrectFlags, u, pk))])
    /\ UNCHANGED <<attempts, answers, sectionScores, calls, submittedOnce, section_questions>>

(***************************************************************************)
(* POST /sections/{pk}/add-questions, remove-questions, set-questions      *)
(***************************************************************************)
\* a permission check that lets every user through
IsExamManagerLax(u) == TRUE

\* IsExamManager.has_permission
IsExamManager(u) == is_exam_manager(u)

Range(ids) == {ids[i] : i \in 1..Len(ids)}

\* questions.count() != len(question_ids)
QuestionsNotFound(ids) == Cardinality(Range(ids) \cap Questions) # Len(ids)

\* the response of a section request
Managed(op, u, pk, ids, r) ==
    [IdleProc EXCEPT !.pc = "done", !.op = op, !.res = r, !.user = u,
                     !.response = Some(pk), !.question_ids = ids]

add_questions(p, u, pk, ids) ==
    /\ proc[p].pc = "idle"
    /\ IF ~IsExamManager(u)
         THEN Bump(p, Managed("add_questions", u, pk, ids, "forbidden_403"))
              /\ UNCHANGED <<section_questions, calls>>
       ELSE IF pk \notin Sections
         THEN Bump(p, Managed("add_questions", u, pk, ids, "section_not_found_404"))
              /\ UNCHANGED <<section_questions, calls>>
       ELSE IF ids = <<>>
         THEN Bump(p, Managed("add_questions", u, pk, ids, "ids_required_400"))
              /\ UNCHANGED <<section_questions, calls>>
       ELSE IF QuestionsNotFound(ids)
         THEN Bump(p, Managed("add_questions", u, pk, ids, "questions_not_found_400"))
              /\ UNCHANGED <<section_questions, calls>>
       ELSE /\ section_questions' =
                   [section_questions EXCEPT ![pk] = @ \cup Range(ids)]
            /\ calls' = calls + 1
            /\ Bump(p, Managed("add_questions", u, pk, ids, "added_200"))
    /\ UNCHANGED <<attempts, answers, sectionScores, submittedOnce>>

remove_questions(p, u, pk, ids) ==
    /\ proc[p].pc = "idle"
    /\ IF ~IsExamManager(u)
         THEN Bump(p, Managed("remove_questions", u, pk, ids, "forbidden_403"))
              /\ UNCHANGED <<section_questions, calls>>
       ELSE IF pk \notin Sections
         THEN Bump(p, Managed("remove_questions", u, pk, ids, "section_not_found_404"))
              /\ UNCHANGED <<section_questions, calls>>
       ELSE IF ids = <<>>
         THEN Bump(p, Managed("remove_questions", u, pk, ids, "ids_required_400"))
              /\ UNCHANGED <<section_questions, calls>>
       ELSE /\ section_questions' =
                   [section_questions EXCEPT ![pk] = @ \ Range(ids)]
            /\ calls' = calls + 1
            /\ Bump(p, Managed("remove_questions", u, pk, ids, "removed_200"))
    /\ UNCHANGED <<attempts, answers, sectionScores, submittedOnce>>

\* section.questions.clear() comes first; a list with an unknown id is
\* answered 400 after it
set_questions(p, u, pk, ids) ==
    /\ proc[p].pc = "idle"
    /\ IF ~IsExamManager(u)
         THEN Bump(p, Managed("set_questions", u, pk, ids, "forbidden_403"))
              /\ UNCHANGED <<section_questions, calls>>
       ELSE IF pk \notin Sections
         THEN Bump(p, Managed("set_questions", u, pk, ids, "section_not_found_404"))
              /\ UNCHANGED <<section_questions, calls>>
       ELSE /\ calls' = calls + 1
            /\ IF ids # <<>> /\ QuestionsNotFound(ids)
                 THEN /\ section_questions' = [section_questions EXCEPT ![pk] = {}]
                      /\ Bump(p, Managed("set_questions", u, pk, ids,
                                         "questions_not_found_400"))
                 ELSE /\ section_questions' =
                             [section_questions EXCEPT ![pk] = Range(ids)]
                      /\ Bump(p, Managed("set_questions", u, pk, ids, "updated_200"))
    /\ UNCHANGED <<attempts, answers, sectionScores, submittedOnce>>

(***************************************************************************)
(* GET /exams/{pk}/results-table                                           *)
(***************************************************************************)
\* per_section[s.id]: the score of the SectionScore row, 0 without one
per_section(a, sec) ==
    IF IsNull(sectionScores[<<a, sec>>]) THEN 0 ELSE Val(sectionScores[<<a, sec>>])

\* the section whose entry a dict keyed by the section names keeps for name n:
\* the last of the sections of that name
LastNamed(secs, n) ==
    CHOOSE x \in secs :
        /\ section_name(x) = n
        /\ \A y \in secs : section_name(y) = n => y <= x

\* {s.name: per_section.get(s.id, 0) for s in sections}
per_section_scores(a, secs) ==
    [n \in {section_name(x) : x \in secs} |-> per_section(a, LastNamed(secs, n))]

\* a row of the table
ResultRow(a, pk) ==
    [reg_number |-> attempts[a].student, level |-> level(attempts[a].student),
     exam_id |-> pk,
     per_section_scores |-> per_section_scores(a, ExamSections(pk)),
     total_score |-> OrZero(attempts[a].total_score)]

\* exam.attempts
ExamAttempts(pk) == {a \in 1..Len(attempts) : attempts[a].exam = pk}

ResultsResponse(u, pk) ==
    IF ~is_exam_manager(u) THEN [status |-> 403, results |-> <<>>]
    ELSE IF pk \notin Exams THEN [status |-> 404, results |-> <<>>]
    ELSE LET as == Ascending(ExamAttempts(pk))
         IN  [status |-> 200, results |-> [i \in 1..Len(as) |-> ResultRow(as[i], pk)]]

results_table(p, u, pk) ==
    /\ proc[p].pc = "idle"
    /\ Bump(p, [IdleProc EXCEPT !.pc = "done", !.op = "results", !.res = "read",
                                !.user = u, !.exam = pk,
                                !.response = Some(ResultsResponse(u, pk))])
    /\ UNCHANGED <<attempts, answers, sectionScores, calls, submittedOnce, section_questions>>

(***************************************************************************)
(* Transactions.                                                           *)
(***************************************************************************)
\* leaving transaction.atomic() without an exception commits
Commit(p) ==
    /\ attempts' = CommittedAttempts(p)
    /\ answers' = VisAnswers(p)
    /\ sectionScores' = VisScores(p)

Rollback == UNCHANGED <<attempts, answers, sectionScores>>

(***************************************************************************)
(* POST /student-exams/submit                                              *)
(***************************************************************************)
\* str.strip() on the essay texts of the payloads
Strip(e) == IF e = " " THEN "" ELSE e

\* ExamSubmissionSerializer: validate_answers rejects an empty list
SubmitCall(p, u, aid, pl) ==
    /\ proc[p].pc = "idle"
    /\ IF pl = <<>>
         THEN Bump(p, [IdleProc EXCEPT !.pc = "done", !.op = "submit",
                                       !.res = "invalid_400", !.user = u,
                                       !.attempt_id = aid])
         ELSE Bump(p, [proc[p] EXCEPT !.pc = "sub_lock", !.op = "submit",
                                      !.user = u, !.attempt_id = aid,
                                      !.answers = pl])
    /\ UNCHANGED <<attempts, answers, sectionScores, calls, submittedOnce, section_questions>>

\* the lookup without the filter on the student
AttemptFoundAnyStudent(aid, u) ==
    /\ aid \in 1..Len(attempts)
    /\ attempts[aid].status = "IN_PROGRESS"

\* get(pk=attempt_id, student=request.user, status="IN_PROGRESS")
AttemptFound(aid, u) ==
    /\ aid \in 1..Len(attempts)
    /\ attempts[aid].student = u
    /\ attempts[aid].status = "IN_PROGRESS"

\* select_for_update(): the row lock is granted when no other transaction holds it
LockGranted(p, aid) == AttemptFree(p, aid)

all_question_ids(e) == UNION {SectionQuestions(s) : s \in ExamSections(e)}
submitted_question_ids(pl) == {pl[i].question : i \in 1..Len(pl)}
missing_questions(e, pl) == all_question_ids(e) \ submitted_question_ids(pl)
sections_map(pl) == {pl[i].section : i \in 1..Len(pl)} \cap Sections

\* the checks before the loop without the one for missing questions
PreCheckNoMissing(e, pl) ==
    IF all_question_ids(e) = {} THEN "no_questions_400"
    ELSE IF \E s \in sections_map(pl) : exam_id(s) # e THEN "section_not_in_exam_400"
    ELSE ""

\* the checks before the loop without the one for an exam without questions
PreCheckNoEmpty(e, pl) ==
    IF missing_questions(e, pl) # {} THEN "missing_400"
    ELSE IF \E s \in sections_map(pl) : exam_id(s) # e THEN "section_not_in_exam_400"
    ELSE ""

\* what the checks made before the first write answer: "" lets the request go on
PreCheck(e, pl) ==
    IF all_question_ids(e) = {} THEN "no_questions_400"
    ELSE IF missing_questions(e, pl) # {} THEN "missing_400"
    ELSE IF \E s \in sections_map(pl) : exam_id(s) # e THEN "section_not_in_exam_400"
    ELSE ""

\* the locked lookup of the attempt and the checks made before the loop
SubmitLock(p) ==
    LET me == proc[p]
        aid == me.attempt_id
    IN  /\ me.pc = "sub_lock"
        /\ IF ~AttemptFound(aid, me.user)
             THEN Bump(p, Done(p, "attempt_not_found_404"))
             ELSE /\ LockGranted(p, aid)
                  /\ LET e == attempts[aid].exam
                         r == PreCheck(e, me.answers)
                     IN  IF r # ""
                           THEN Bump(p, [Done(p, r) EXCEPT !.missing_questions =
                                           IF r = "missing_400"
                                             THEN missing_questions(e, me.answers)
                                             ELSE {}])
                           ELSE Bump(p, [me EXCEPT !.pc = "sub_answer", !.i = 1,
                                                   !.locked = {aid},
                                                   !.attempt = Some(attempts[aid])])
        /\ calls' = IF proc'[p].pc = "sub_answer" THEN calls + 1 ELSE calls
        /\ UNCHANGED <<attempts, answers, sectionScores, submittedOnce, section_questions>>

\* what the checks of one answer say: "" lets the answer be stored
AnswerCheck(a) ==
    IF a.question \notin Questions THEN "question_not_found_400"
    ELSE IF a.section \notin Sections THEN "section_not_found_400"
    ELSE IF a.question \notin SectionQuestions(a.section)
      THEN "question_not_in_section_400"
    ELSE ""

\* Option.objects.get(pk=selected_option_id, question=question) finds a row
OptionFound(o, q) == o \in Options /\ OptionQuestion(o) = q

\* "if selected_option_id:" of an OBJECTIVE answer
OptionGiven(a) == ~IsNull(a.selected_option) /\ Val(a.selected_option) # 0

OptionInvalid(a) ==
    /\ question_type(a.question) = "OBJECTIVE"
    /\ OptionGiven(a)
    /\ ~OptionFound(Val(a.selected_option), a.question)

\* the auto-grading that gives full marks to any selected option
AutoMarkAnyOption(a) ==
    IF question_type(a.question) = "OBJECTIVE"
      THEN IF OptionGiven(a) THEN Some(maximum_mark(a.question)) ELSE Some(0)
      ELSE None

\* the mark of the auto-grading
AutoMark(a) ==
    IF question_type(a.question) = "OBJECTIVE"
      THEN IF OptionGiven(a)
             THEN IF is_correct(Val(a.selected_option))
                    THEN Some(maximum_mark(a.question)) ELSE Some(0)
             ELSE Some(0)
      ELSE None

\* the row sa.save() writes
SavedAnswer(a) ==
    [section |-> a.section,
     selected_option |-> a.selected_option,
     essay_answer |-> IF Strip(Val(a.essay_answer)) = "" THEN None
                      ELSE Some(Strip(Val(a.essay_answer))),
     mark_gained |-> AutoMark(a),
     graded_by |-> None,
     graded_at |-> IF question_type(a.question) = "OBJECTIVE"
                     THEN Some("now") ELSE None]

\* an upsert that keeps the row the transaction has already written
UpsertKeepFirst(wr, k, a) ==
    IF IsNull(wr[k]) THEN [wr EXCEPT ![k] = Some(SavedAnswer(a))] ELSE wr

\* get_or_create(attempt, question) ... sa.save(): the row of the key is
\* overwritten
Upsert(wr, k, a) == [wr EXCEPT ![k] = Some(SavedAnswer(a))]

\* a return inside "with transaction.atomic()" leaves the block without an
\* exception: the writes made so far are committed
ReturnInsideAtomic(p, wrA, r) ==
    /\ answers' = [k \in AnswerKeys |-> IF IsNull(wrA[k]) THEN answers[k] ELSE wrA[k]]
    /\ sectionScores' = VisScores(p)
    /\ attempts' = CommittedAttempts(p)
    /\ Bump(p, Done(p, r))

\* an exception leaves "with transaction.atomic()" and commits what was written
RaiseInsideAtomicCommits(p) ==
    /\ Commit(p)
    /\ Bump(p, [Done(p, "error_500") EXCEPT !.i = proc[p].i])

\* an exception leaves "with transaction.atomic()": the transaction is rolled
\* back; submit answers 500, grade_answer lets the exception through
RaiseInsideAtomic(p) ==
    /\ Rollback
    /\ Bump(p, [Done(p, "error_500") EXCEPT !.i = proc[p].i])

\* one turn of "for a in answers"
SubmitAnswer(p) ==
    LET me == proc[p]
        aid == me.attempt_id
        a == me.answers[me.i]
        k == <<aid, a.question>>
        \* get_or_create(attempt, question, defaults={'section': section})
        wrCreated == IF IsNull(VisAnswers(p)[k])
                       THEN [me.wrAnswers EXCEPT ![k] = Some(AnswerRow(a.section))]
                       ELSE me.wrAnswers
    IN  /\ me.pc = "sub_answer"
        \* a.get('essay_answer', '').strip() of None raises AttributeError
        /\ IF IsNull(a.essay_answer)
             THEN RaiseInsideAtomic(p)
           ELSE IF AnswerCheck(a) # ""
             THEN ReturnInsideAtomic(p, me.wrAnswers, AnswerCheck(a))
           ELSE IF OptionInvalid(a)
             THEN ReturnInsideAtomic(p, wrCreated, "option_invalid_400")
           ELSE /\ AnswerFree(p, k)
                /\ Bump(p, [me EXCEPT
                       !.wrAnswers = Upsert(me.wrAnswers, k, a),
                       !.i = me.i + 1,
                       !.pc = IF me.i = Len(me.answers) THEN "sub_finish"
                              ELSE "sub_answer"])
                /\ UNCHANGED <<attempts, answers, sectionScores>>
        /\ UNCHANGED <<calls, submittedOnce, section_questions>>

\* Sum('mark_gained') over the marked answers of a section, "or 0"
section_total(rows, a, s) == OrZero(AggregateSum(rows, SectionKeys(rows, a, s)))

\* Sum('mark_gained') over the marked answers of an attempt, "or 0"
attempt_total(rows, a) == OrZero(AggregateSum(rows, AttemptKeys(a)))

graded_count(rows, a) == Cardinality(Marked(rows, AttemptKeys(a)))
ungraded_count(rows, a) == Cardinality(Unmarked(rows, AttemptKeys(a)))

\* an attempt.save() that sets GRADED
SubmittedAttemptGraded(att, total) ==
    [att EXCEPT !.submitted_at = Some("now"), !.status = "GRADED",
                !.total_score = Some(total)]

\* attempt.save() of submit
SubmittedAttempt(att, total) ==
    [att EXCEPT !.submitted_at = Some("now"), !.status = "SUBMITTED",
                !.total_score = Some(total)]

\* The section scores, the total, the attempt row, the counts and the commit.
\* By now the transaction holds the lock of the attempt row and of every
\* answer row of the attempt, so no statement of another transaction can
\* change what these statements read or write: they are taken as one step.
SubmitFinish(p) ==
    LET me == proc[p]
        aid == me.attempt_id
        rows == VisAnswers(p)
        all_sections == ExamSections(Val(me.attempt).exam)
        scores == [k \in ScoreKeys |->
                     IF k[1] = aid /\ k[2] \in all_sections
                       THEN Some(section_total(rows, aid, k[2]))
                       ELSE sectionScores[k]]
        total == attempt_total(rows, aid)
    IN  /\ me.pc = "sub_finish"
        /\ \A s \in all_sections : ScoreFree(p, <<aid, s>>)
        /\ answers' = rows
        /\ sectionScores' = scores
        /\ attempts' = [attempts EXCEPT ![aid] = SubmittedAttempt(Val(me.attempt), total)]
        /\ submittedOnce' = submittedOnce \cup {aid}
        /\ proc' = [q \in Procs |->
                      IF q = p
                        THEN [Done(p, "submitted_200") EXCEPT
                                 !.total = total,
                                 !.graded_count = graded_count(rows, aid),
                                 !.pending_count = ungraded_count(rows, aid)]
                      ELSE IF proc[q].pc = "sub_lock" /\ proc[q].attempt_id = aid
                        THEN [proc[q] EXCEPT !.rival = TRUE]
                      ELSE proc[q]]
        /\ UNCHANGED <<calls, section_questions>>

(***************************************************************************)
(* POST /examiner/grade-answer                                             *)
(***************************************************************************)
\* the comparison with the limit one too high
MarkExceedsLax(mark, q) == mark > maximum_mark(q) + 1

\* float(mark) > float(sa.question.maximum_mark)
MarkExceeds(mark, q) == mark > maximum_mark(q)

GradePcs ==
    {"grade_save", "grade_sum", "grade_score", "grade_total", "grade_count",
     "grade_attempt", "grade_commit"}

\* worker q is grading another answer of the attempt of answer key
GradingBeside(q, key) ==
    /\ proc[q].pc \in GradePcs
    /\ proc[q].answer_id[1] = key[1]
    /\ proc[q].answer_id # key

\* the request up to the first statement of the transaction
GradeCall(p, u, key, mark) ==
    /\ proc[p].pc = "idle"
    /\ LET fin(r) == [IdleProc EXCEPT !.pc = "done", !.op = "grade", !.res = r,
                                      !.user = u, !.answer_id = key, !.mark = mark]
       IN  IF ~is_examiner(u)
             THEN Bump(p, fin("not_examiner_403"))
           ELSE IF IsNull(mark)
             THEN Bump(p, fin("mark_required_400"))
           ELSE IF IsNull(answers[key])
             THEN Bump(p, fin("answer_not_found_404"))
           ELSE IF MarkExceeds(Val(mark), key[2])
             THEN Bump(p, fin("mark_exceeds_400"))
           ELSE proc' = [q \in Procs |->
                    IF q = p
                      THEN [proc[p] EXCEPT
                               !.pc = "grade_save", !.op = "grade", !.user = u,
                               !.answer_id = key, !.mark = mark,
                               !.attempt_id = key[1],
                               \* select_related('attempt', 'section', 'question')
                               !.sa = answers[key],
                               !.attempt = Some(attempts[key[1]]),
                               !.peer = \E r \in Procs \ {p} : GradingBeside(r, key)]
                    ELSE IF GradingBeside(q, key)
                      THEN [proc[q] EXCEPT !.peer = TRUE]
                    ELSE proc[q]]
    /\ calls' = IF proc'[p].pc = "grade_save" THEN calls + 1 ELSE calls
    /\ UNCHANGED <<attempts, answers, sectionScores, submittedOnce, section_questions>>

\* the row sa.save() of grade_answer writes
GradedAnswer(sa, mark, u) ==
    [sa EXCEPT !.mark_gained = mark, !.graded_by = Some(u), !.graded_at = Some("now")]

\* sa.save()
GradeSave(p) ==
    LET me == proc[p]
    IN  /\ me.pc = "grade_save"
        /\ AnswerFree(p, me.answer_id)
        /\ Bump(p, [me EXCEPT
               !.pc = "grade_sum",
               !.wrAnswers[me.answer_id] = Some(GradedAnswer(Val(me.sa), me.mark, me.user))])
        /\ UNCHANGED <<attempts, answers, sectionScores, calls, submittedOnce, section_questions>>

\* section_total = Sum over the answers of (attempt, sa.section)
GradeSectionSum(p) ==
    LET me == proc[p]
    IN  /\ me.pc = "grade_sum"
        /\ Bump(p, [me EXCEPT
               !.pc = "grade_score",
               !.section_total =
                   section_total(VisAnswers(p), me.attempt_id, Val(me.sa).section)])
        /\ UNCHANGED <<attempts, answers, sectionScores, calls, submittedOnce, section_questions>>

\* SectionScore.objects.update_or_create(attempt, section, defaults={'score': ...})
GradeSectionScore(p) ==
    LET me == proc[p]
        k == <<me.attempt_id, Val(me.sa).section>>
    IN  /\ me.pc = "grade_score"
        /\ ScoreFree(p, k)
        /\ Bump(p, [me EXCEPT !.pc = "grade_total",
                              !.wrScores[k] = Some(me.section_total)])
        /\ UNCHANGED <<attempts, answers, sectionScores, calls, submittedOnce, section_questions>>

\* attempt_total = Sum over the answers of the attempt
GradeTotal(p) ==
    LET me == proc[p]
    IN  /\ me.pc = "grade_total"
        /\ Bump(p, [me EXCEPT !.pc = "grade_count",
                              !.total = attempt_total(VisAnswers(p), me.attempt_id)])
        /\ UNCHANGED <<attempts, answers, sectionScores, calls, submittedOnce, section_questions>>

\* ungraded_count = the answers of the attempt without a mark
GradeCount(p) ==
    LET me == proc[p]
    IN  /\ me.pc = "grade_count"
        /\ Bump(p, [me EXCEPT !.pc = "grade_attempt",
                              !.ungraded_count =
                                  ungraded_count(VisAnswers(p), me.attempt_id)])
        /\ UNCHANGED <<attempts, answers, sectionScores, calls, submittedOnce, section_questions>>

\* the attempt set to GRADED whatever the count of ungraded answers
GradedAttemptAlways(att, total, ungraded) ==
    [att EXCEPT !.total_score = Some(total), !.status = "GRADED"]

\* sa.attempt with total_score and status set, as sa.attempt.save() writes it
GradedAttempt(att, total, ungraded) ==
    [att EXCEPT !.total_score = Some(total),
                !.status = IF ungraded = 0 THEN "GRADED" ELSE att.status]

\* sa.attempt.save()
GradeAttemptSave(p) ==
    LET me == proc[p]
    IN  /\ me.pc = "grade_attempt"
        /\ AttemptFree(p, me.attempt_id)
        /\ Bump(p, [me EXCEPT
               !.pc = "grade_commit",
               !.wrAttempts[me.attempt_id] =
                   Some(GradedAttempt(Val(me.attempt), me.total, me.ungraded_count))])
        /\ UNCHANGED <<attempts, answers, sectionScores, calls, submittedOnce, section_questions>>

\* the end of "with transaction.atomic()" and the response
GradeCommit(p) ==
    LET me == proc[p]
    IN  /\ me.pc = "grade_commit"
        /\ Commit(p)
        /\ Bump(p, [Done(p, "graded_200") EXCEPT
               !.mark = me.mark, !.sa = me.sa, !.attempt = me.attempt,
               !.section_total = me.section_total, !.total = me.total])
        /\ UNCHANGED <<calls, submittedOnce, section_questions>>

(***************************************************************************)
(* Lock waits.  A statement that needs a row lock held by another          *)
(* transaction waits; the store ends a cycle of waits by making one of the *)
(* waiting statements fail, which rolls its transaction back (submit       *)
(* answers 500, grade_answer lets the exception through).                  *)
(***************************************************************************)
Waits(p, q) ==
    LET me == proc[p]
    IN  \/ /\ me.pc = "sub_answer"
           /\ ~IsNull(me.answers[me.i].essay_answer)
           /\ AnswerCheck(me.answers[me.i]) = ""
           /\ ~OptionInvalid(me.answers[me.i])
           /\ <<me.attempt_id, me.answers[me.i].question>> \in AnswerLocks(q)
        \/ /\ me.pc = "grade_save"
           /\ me.answer_id \in AnswerLocks(q)
        \/ /\ me.pc = "grade_score"
           /\ <<me.attempt_id, Val(me.sa).section>> \in ScoreLocks(q)
        \/ /\ me.pc = "grade_attempt"
           /\ me.attempt_id \in AttemptLocks(q)

DeadlockAbort(p) ==
    /\ \E q \in Procs \ {p} : Waits(p, q) /\ Waits(q, p)
    /\ RaiseInsideAtomic(p)
    /\ UNCHANGED <<calls, submittedOnce, section_questions>>

(***************************************************************************)
(* The requests the clients make, and the specifications.  Spec runs the   *)
(* requests of two workers interleaved, with the payloads and marks that   *)
(* decide how requests interfere; SpecLong runs three workers on one exam, *)
(* so that a grade-answer request may run beside two submit requests;      *)
(* SpecSeq serves one request at a time, with every payload and mark.      *)
(***************************************************************************)
StartInputs == Users \X Exams

\* students submit any payload; the examiner only a complete one
SubmitInputs ==
    {x \in Users \X AttemptIds \X Payloads : is_student(x[1]) \/ x[3] = PayloadOk}

\* the examiner grades with any mark; a student tries one
GradeInputs ==
    {x \in Users \X AnswerKeys \X MarkInputs :
        is_examiner(x[1]) \/ (x[1] = 1 /\ x[3] = Some(1))}

\* student 1 and exam 1, and one rejected request of each kind
ConcurrentStarts == {<<1, 1>>, <<2, 1>>, <<3, 1>>, <<1, 3>>}

\* student 1 with a complete payload, with one rejected after two answers are
\* stored and with one that misses questions; student 2 with a complete payload
ConcurrentSubmits ==
    {x \in SubmitInputs :
        \/ x[1] = 1 /\ x[3] \in {PayloadOk, PayloadNotInSection, PayloadMissing}
        \/ x[1] = 1 /\ x[2] = 1 /\ x[3] \in {PayloadLateReject, PayloadNullEssay}
        \/ x[1] = 2 /\ x[2] = 1 /\ x[3] = PayloadOk}

\* the examiner with a mark in range on the questions of exam 1, and without
\* a mark and with one too big on one answer; student 1 on one answer
ConcurrentGrades ==
    {x \in GradeInputs :
        \/ /\ is_examiner(x[1])
           /\ x[2][2] \in UNION {InitialQuestions(s) : s \in ExamSections(1)}
           /\ x[3] = Some(1)
        \/ is_examiner(x[1]) /\ x[2] = <<1, 2>> /\ x[3] \in {None, Some(4)}
        \/ ~is_examiner(x[1]) /\ x[2] = <<1, 1>>}

\* a step of worker p; limit bounds the requests that get as far as writing
Step(p, starts, submits, grades, limit) ==
    \/ \E x \in starts : Start(p, x[1], x[2])
    \/ StartCreate(p) /\ calls' <= limit
    \/ \E x \in submits : SubmitCall(p, x[1], x[2], x[3])
    \/ SubmitLock(p) /\ calls' <= limit
    \/ SubmitAnswer(p)
    \/ SubmitFinish(p)
    \/ \E x \in grades : GradeCall(p, x[1], x[2], x[3]) /\ calls' <= limit
    \/ GradeSave(p)
    \/ GradeSectionSum(p)
    \/ GradeSectionScore(p)
    \/ GradeTotal(p)
    \/ GradeCount(p)
    \/ GradeAttemptSave(p)
    \/ GradeCommit(p)
    \/ Return(p)

\* two workers serve the requests
Next ==
    \E p \in {1, 2} :
        \/ Step(p, ConcurrentStarts, ConcurrentSubmits, ConcurrentGrades, MaxCalls)
        \/ DeadlockAbort(p)

Spec == Init /\ [][Next]_vars

\* student 1 starts exam 1 and submits a complete payload or one rejected
\* after two answers are stored; the examiner grades the answer to question 2
RaceStarts == {<<1, 1>>}
RaceSubmits == {x \in SubmitInputs : x[1] = 1 /\ x[3] \in {PayloadOk, PayloadNotInSection}}
RaceGrades == {x \in GradeInputs : is_examiner(x[1]) /\ x[2] = <<1, 2>> /\ x[3] = Some(1)}

\* three workers serve these requests, one request more
NextLong ==
    \E p \in Procs :
        \/ Step(p, RaceStarts, RaceSubmits, RaceGrades, MaxCallsLong)
        \/ DeadlockAbort(p)

SpecLong == Init /\ [][NextLong]_vars

\* one worker serves the requests, the reading ones too
NextSeq ==
    \/ Step(1, StartInputs, SubmitInputs, GradeInputs, MaxCalls)
    \/ \E x \in StartInputs : get_exam_questions(1, x[1], x[2])
    \/ \E x \in StartInputs : results_table(1, x[1], x[2])

SpecSeq == Init /\ [][NextSeq]_vars

\* one worker serves one more request
NextSeqLong == Step(1, StartInputs, SubmitInputs, GradeInputs, MaxCallsLong)

SpecSeqLong == Init /\ [][NextSeqLong]_vars

\* section 2 of exam 1, section 3 of exam 2 and a section that does not exist; no
\* question, question 4, and question 4 with a question that does not exist
ManagerInputs == Users \X {2, 3, 9} \X {<<>>, <<4>>, <<4, 9>>}

\* the payloads of students while the exam manager changes the sections
ManageSubmits ==
    {x \in Users \X AttemptIds \X
               {PayloadOk, PayloadMissing, PayloadExam2, PayloadExtra} :
        is_student(x[1])}

\* one worker serves the requests, those of the exam manager too
NextManage ==
    \/ Step(1, StartInputs, ManageSubmits, GradeInputs, MaxCallsLong)
    \/ \E x \in ManagerInputs : add_questions(1, x[1], x[2], x[3]) /\ calls' <= MaxCallsLong
    \/ \E x \in ManagerInputs : remove_questions(1, x[1], x[2], x[3]) /\ calls' <= MaxCallsLong
    \/ \E x \in ManagerInputs : set_questions(1, x[1], x[2], x[3]) /\ calls' <= MaxCallsLong

SpecManage == Init /\ [][NextManage]_vars

(***************************************************************************)
(* Properties.                                                             *)
(***************************************************************************)
Finished(p, op, r) == proc[p].pc = "done" /\ proc[p].op = op /\ proc[p].res = r

\* total_score of attempt a, NULL read as 0
TotalOrZero(a) == OrZero(attempts[a].total_score)

TotalMatches(a) == TotalOrZero(a) = attempt_total(answers, a)

SectionScoresMatch(a) ==
    \A s \in Sections :
        ~IsNull(sectionScores[<<a, s>>]) =>
            Val(sectionScores[<<a, s>>]) = section_total(answers, a, s)

StoreUnchanged == UNCHANGED <<attempts, answers, sectionScores>>

\* C7: in every reachable state a student has at most one IN_PROGRESS attempt
\* of an exam, also when two start calls for the same student and exam run
\* concurrently.
C7_OneInProgress ==
    \A u \in Users, e \in Exams : Cardinality(InProgress(e, u)) <= 1

SubmitTxPcs == {"sub_answer", "sub_finish"}

\* C3: two submit requests for the same IN_PROGRESS attempt serialize on the
\* lock of the attempt row: their transactions never overlap, and the request
\* that waited while the other committed the submission ends with not-found,
\* so the answers are processed once.
C3_SubmitsSerialize ==
    /\ \A p, q \in Procs :
          (/\ p # q
           /\ proc[p].pc \in SubmitTxPcs
           /\ proc[q].pc \in SubmitTxPcs) => proc[p].attempt_id # proc[q].attempt_id
    /\ \A p \in Procs :
          (proc[p].op = "submit" /\ proc[p].rival) =>
              \/ proc[p].pc = "sub_lock"
              \/ Finished(p, "submit", "attempt_not_found_404")

\* both workers have committed grade-answer calls that ran side by side on
\* two answers of one attempt, which was submitted when they read it
BothGraded(p, q) ==
    /\ p # q
    /\ Finished(p, "grade", "graded_200") /\ proc[p].peer
    /\ Finished(q, "grade", "graded_200") /\ proc[q].peer
    /\ proc[p].answer_id[1] = proc[q].answer_id[1]
    /\ proc[p].answer_id # proc[q].answer_id
    /\ Val(proc[p].attempt).status # "IN_PROGRESS"
    /\ Val(proc[q].attempt).status # "IN_PROGRESS"

\* C4: once two concurrent grade-answer calls for two answers of one attempt
\* have both committed, total_score is the sum of the marks of the attempt and
\* every SectionScore the sum of the marks of its section.
C4_ConcurrentGradesConverge ==
    \A p, q \in Procs :
        BothGraded(p, q) =>
            /\ TotalMatches(proc[p].answer_id[1])
            /\ SectionScoresMatch(proc[p].answer_id[1])

\* C5: once two concurrent grade-answer calls for the last two ungraded
\* answers of an attempt have both committed, the attempt is GRADED.
C5_LastTwoGraded ==
    \A p, q \in Procs :
        (/\ BothGraded(p, q)
         /\ IsNull(Val(proc[p].sa).mark_gained)
         /\ IsNull(Val(proc[q].sa).mark_gained)
         /\ Unmarked(answers, AttemptKeys(proc[p].answer_id[1])) = {})
            => attempts[proc[p].answer_id[1]].status = "GRADED"

Rank(st) == IF st = "IN_PROGRESS" THEN 0 ELSE IF st = "SUBMITTED" THEN 1 ELSE 2

\* C6: no step moves the status of an attempt backwards, and no step moves an
\* attempt to GRADED that was not SUBMITTED (or GRADED) before.
C6_StatusForward ==
    [][\A a \in 1..Len(attempts) :
          /\ Rank(attempts'[a].status) >= Rank(attempts[a].status)
          /\ (attempts'[a].status = "GRADED" =>
                 attempts[a].status \in {"SUBMITTED", "GRADED"})]_vars

\* C9: submit succeeds at most once per attempt: no submit commits a
\* submission of an attempt on which a submit has succeeded before.
C9_SubmitOnce ==
    [][\A p \in Procs :
          (proc[p].pc = "sub_finish" /\ proc'[p].pc = "done") =>
              proc[p].attempt_id \notin submittedOnce]_vars

\* C1: after every completed submit call and every completed grade-answer
\* call, calls being executed one at a time, total_score of every attempt
\* (NULL read as 0) is the sum of the marks of its answers.
C1_TotalIsSumOfMarks ==
    \A p \in Procs :
        (proc[p].pc = "done" /\ proc[p].op \in {"submit", "grade"}) =>
            \A a \in 1..Len(attempts) : TotalMatches(a)

ValidationRejections ==
    {"missing_400", "section_not_in_exam_400", "question_not_found_400",
     "section_not_found_400", "question_not_in_section_400", "option_invalid_400"}

\* the step in which worker p ends a submit call with a validation rejection
SubmitRejected(p) ==
    /\ proc[p].pc \in {"sub_lock", "sub_answer"}
    /\ proc'[p].pc = "done"
    /\ proc'[p].res \in ValidationRejections

\* C2: a submit call that ends in a validation rejection commits nothing: the
\* answers, the section scores and the attempts are what they were before it,
\* wherever the offending answer stands in the list.
C2_SubmitAllOrNothing ==
    [][\A p \in Procs : SubmitRejected(p) => StoreUnchanged]_vars

\* the step in which the locked lookup of worker p finds the attempt, for a
\* payload that omits a question of the exam
SubmitOmits(p) ==
    /\ proc[p].pc = "sub_lock"
    /\ proc'[p].pc # "sub_lock"
    /\ AttemptFound(proc[p].attempt_id, proc[p].user)
    /\ missing_questions(attempts[proc[p].attempt_id].exam, proc[p].answers) # {}

\* C8: a submit whose answers omit a question of the exam is rejected with
\* the missing question ids, stores nothing and leaves the attempt IN_PROGRESS.
C8_MissingQuestionRejected ==
    [][\A p \in Procs :
          SubmitOmits(p) =>
              /\ proc'[p].pc = "done"
              /\ proc'[p].res = "missing_400"
              /\ proc'[p].missing_questions =
                     missing_questions(attempts[proc[p].attempt_id].exam,
                                       proc[p].answers)
              /\ StoreUnchanged
              /\ attempts'[proc[p].attempt_id].status = "IN_PROGRESS"]_vars

\* a submit that omitted questions 2 and 3 has been rejected
C8_Witness ==
    \E p \in Procs :
        /\ Finished(p, "submit", "missing_400")
        /\ proc[p].missing_questions = {2, 3}
        /\ attempts[proc[p].attempt_id].status = "IN_PROGRESS"
        /\ \A k \in AttemptKeys(proc[p].attempt_id) : IsNull(answers[k])

\* the step in which worker p takes a grade-answer request of an examiner
GradeCalled(p) ==
    /\ proc[p].pc = "idle"
    /\ proc'[p].op = "grade"
    /\ is_examiner(proc'[p].user)

\* C10: a grade-answer call without mark_gained (400), for an answer that does
\* not exist (404) or with a mark above maximum_mark of the question (400) is
\* rejected in its first step and changes no row.
C10_GradeRejected ==
    [][\A p \in Procs :
          GradeCalled(p) =>
              LET key == proc'[p].answer_id
                  mark == proc'[p].mark
              IN  /\ IsNull(mark) =>
                        /\ proc'[p].pc = "done"
                        /\ proc'[p].res = "mark_required_400"
                        /\ StoreUnchanged
                  /\ (~IsNull(mark) /\ IsNull(answers[key])) =>
                        /\ proc'[p].pc = "done"
                        /\ proc'[p].res = "answer_not_found_404"
                        /\ StoreUnchanged
                  /\ (/\ ~IsNull(mark)
                      /\ ~IsNull(answers[key])
                      /\ Val(mark) > maximum_mark(key[2])) =>
                        /\ proc'[p].pc = "done"
                        /\ proc'[p].res = "mark_exceeds_400"
                        /\ StoreUnchanged]_vars

\* a mark above the maximum has been refused for a stored answer
C10_Witness ==
    \E p \in Procs :
        /\ Finished(p, "grade", "mark_exceeds_400")
        /\ ~IsNull(answers[proc[p].answer_id])
        /\ Val(proc[p].mark) > maximum_mark(proc[p].answer_id[2])

\* the step in which worker p commits a grade-answer call
GradeCommitted(p) == proc[p].pc = "grade_commit" /\ proc'[p].pc = "done"

\* C11: after a grade-answer call that runs alone and succeeds, the attempt is
\* GRADED if none of its answers has a null mark, and has otherwise the status
\* it had before the call.
C11_GradeAloneSetsStatus ==
    [][\A p \in Procs :
          GradeCommitted(p) =>
              LET a == proc[p].attempt_id
              IN  attempts'[a].status =
                      IF Unmarked(answers', AttemptKeys(a)) = {}
                        THEN "GRADED"
                        ELSE Val(proc[p].attempt).status]_vars

\* a grade-answer call has graded the last ungraded answer of a SUBMITTED
\* attempt, which is now GRADED
C11_Witness ==
    \E p \in Procs :
        /\ Finished(p, "grade", "graded_200")
        /\ Val(proc[p].attempt).status = "SUBMITTED"
        /\ IsNull(Val(proc[p].sa).mark_gained)
        /\ Unmarked(answers, AttemptKeys(proc[p].attempt_id)) = {}
        /\ attempts[proc[p].attempt_id].status = "GRADED"

\* C12: in every reachable state an attempt whose status is GRADED has no
\* answer with a null mark.
C12_GradedHasNoNullMark ==
    \A a \in 1..Len(attempts) :
        attempts[a].status = "GRADED" => Unmarked(answers, AttemptKeys(a)) = {}

\* the step in which worker p commits a successful submit
SubmitCommitted(p) == proc[p].pc = "sub_finish" /\ proc'[p].pc = "done"

\* the place of the last entry of payload pl for question q
LastEntry(pl, q) ==
    CHOOSE i \in 1..Len(pl) :
        /\ pl[i].question = q
        /\ \A j \in (i + 1)..Len(pl) : pl[j].question # q

\* option o is given, belongs to question q and is its correct option
CorrectChoice(a) ==
    /\ ~IsNull(a.selected_option)
    /\ Val(a.selected_option) \in Options
    /\ OptionQuestion(Val(a.selected_option)) = a.question
    /\ is_correct(Val(a.selected_option))

SubmitLooksUp(p) == proc[p].pc = "sub_lock" /\ proc'[p].pc # "sub_lock"

\* C14: a submit for which no IN_PROGRESS attempt with the given id belongs to
\* the calling user ends with not-found and changes no attempt, answer or
\* section score.
C14_SubmitNotFound ==
    [][\A p \in Procs :
          (/\ SubmitLooksUp(p)
           /\ ~\E a \in 1..Len(attempts) :
                   /\ a = proc[p].attempt_id
                   /\ attempts[a].student = proc[p].user
                   /\ attempts[a].status = "IN_PROGRESS") =>
              /\ proc'[p].pc = "done"
              /\ proc'[p].res = "attempt_not_found_404"
              /\ StoreUnchanged]_vars

\* a student has got not-found for the IN_PROGRESS attempt of another student
C14_Witness ==
    \E p \in Procs :
        /\ Finished(p, "submit", "attempt_not_found_404")
        /\ proc[p].attempt_id \in 1..Len(attempts)
        /\ attempts[proc[p].attempt_id].status = "IN_PROGRESS"
        /\ attempts[proc[p].attempt_id].student # proc[p].user

\* the step in which the request of worker p ends with an exception
Raised(p) ==
    proc[p].pc # "done" /\ proc'[p].pc = "done" /\ proc'[p].res = "error_500"

\* C15: when an exception is raised inside the transaction of a submit or of
\* a grade-answer, none of the writes of the request is persisted: the
\* answers, the section scores and the attempts stay as they are stored.
C15_ExceptionRollsBack ==
    [][\A p \in Procs : Raised(p) => StoreUnchanged]_vars

\* a submit has ended with 500 at its third answer, after two answers were
\* written, and the attempt has no answer
C15_Witness ==
    \E p \in Procs :
        /\ Finished(p, "submit", "error_500")
        /\ proc[p].i = 3
        /\ attempts[proc[p].attempt_id].status = "IN_PROGRESS"
        /\ \A k \in AttemptKeys(proc[p].attempt_id) : IsNull(answers[k])

\* C16: the response of get-questions is the same in every catalog that
\* differs from this one only in the is_correct flags of options, and a user
\* without an IN_PROGRESS attempt of the exam gets an error without content.
C16_AnswerKeyWithheld ==
    \A p \in Procs :
        (proc[p].pc = "done" /\ proc[p].op = "questions") =>
            /\ \A c \in [Options -> BOOLEAN] :
                   Val(proc[p].response) = QuestionsResponse(c, proc[p].user, proc[p].exam)
            /\ InProgress(proc[p].exam, proc[p].user) = {} =>
                   /\ Val(proc[p].response).status # 200
                   /\ Val(proc[p].response).sections = <<>>

\* a student with an IN_PROGRESS attempt has got the questions of exam 1,
\* with the options of question 1
C16_Witness ==
    \E p \in Procs :
        /\ proc[p].pc = "done" /\ proc[p].op = "questions"
        /\ InProgress(1, proc[p].user) # {}
        /\ Val(proc[p].response).status = 200
        /\ Val(proc[p].response).exam_id = 1
        /\ Len(Val(Val(proc[p].response).sections[1].questions[1].options)) = 2

\* the step in which worker p answers a results-table request for a known exam
TableServed(p) ==
    /\ proc[p].pc = "idle"
    /\ proc'[p].pc = "done" /\ proc'[p].op = "results"
    /\ Val(proc'[p].response).status = 200

\* C17: the results table has one row per attempt of the exam; the row of an
\* attempt gives, for every section of the exam, the score of the SectionScore
\* of the attempt and the section, or 0 without one, and total_score (0 when
\* null); producing it changes no stored state.
C17_ResultsTable ==
    [][\A p \in Procs :
          TableServed(p) =>
              LET pk == proc'[p].exam
                  rows == Val(proc'[p].response).results
                  as == Ascending(ExamAttempts(pk))
              IN  /\ StoreUnchanged
                  /\ Len(rows) = Cardinality(ExamAttempts(pk))
                  /\ \A i \in 1..Len(rows) :
                        /\ rows[i].total_score = TotalOrZero(as[i])
                        /\ \A x \in ExamSections(pk) :
                              /\ section_name(x) \in DOMAIN rows[i].per_section_scores
                              /\ rows[i].per_section_scores[section_name(x)] =
                                     IF IsNull(sectionScores[<<as[i], x>>]) THEN 0
                                     ELSE Val(sectionScores[<<as[i], x>>])]_vars

\* worker p takes a step of a request
Acting(p) == proc'[p] # proc[p]

\* the operation and the user of the request worker p takes a step of
ReqOp(p) == IF proc[p].pc = "idle" THEN proc'[p].op ELSE proc[p].op
ReqUser(p) == IF proc[p].pc = "idle" THEN proc'[p].user ELSE proc[p].user

SectionOps == {"add_questions", "remove_questions", "set_questions"}

\* C18: a start call of a user who is not a student creates no attempt, a
\* grade-answer call of a user who is not an examiner changes no answer, no
\* section score and no attempt, and a request of a user who is not an exam
\* manager changes the questions of no section; attempts are created by
\* students and the questions of sections changed by exam managers only.
C18_RoleGating ==
    [][/\ \A p \in Procs :
             Acting(p) =>
                 /\ (ReqOp(p) = "start" /\ ~is_student(ReqUser(p))) =>
                        attempts' = attempts
                 /\ (ReqOp(p) = "grade" /\ ~is_examiner(ReqUser(p))) => StoreUnchanged
                 /\ ~is_exam_manager(ReqUser(p)) => UNCHANGED section_questions
       /\ Len(attempts') > Len(attempts) =>
             is_student(attempts'[Len(attempts')].student)
       /\ section_questions' # section_questions =>
             \E p \in Procs : Acting(p) /\ ReqOp(p) \in SectionOps
                                /\ is_exam_manager(ReqUser(p))]_vars

\* a student has asked to set the questions of section 3, which is still
\* empty, and has been refused
C18_Witness ==
    \E p \in Procs :
        /\ Finished(p, "set_questions", "forbidden_403")
        /\ is_student(proc[p].user)
        /\ proc[p].response = Some(3)
        /\ section_questions[3] = {}

\* the questions of exam e an examiner marks
ManualQuestions(e) ==
    {q \in all_question_ids(e) : question_type(q) \in {"THEORY", "OSCE"}}

\* C19: graded_questions of the submit response is the number of answers of
\* the attempt with a mark and pending_grading the number without one; after
\* a successful submit their sum is the number of distinct required
\* questions and pending_grading the number of required questions that are
\* THEORY or OSCE.
C19_SubmitCounts ==
    \A p \in Procs :
        Finished(p, "submit", "submitted_200") =>
            LET a == proc[p].attempt_id
                e == attempts[a].exam
            IN  /\ proc[p].graded_count = Cardinality(Marked(answers, AttemptKeys(a)))
                /\ proc[p].pending_count = Cardinality(Unmarked(answers, AttemptKeys(a)))
                /\ proc[p].graded_count + proc[p].pending_count =
                       Cardinality(all_question_ids(e))
                /\ proc[p].pending_count = Cardinality(ManualQuestions(e))

\* C20: after every successful submit and every successful grade-answer call,
\* run one at a time, every SectionScore row of a section of the exam of the
\* attempt holds the sum of the marks of the answers of the attempt recorded
\* under that section, and after a successful submit every section of the
\* exam has such a row.
C20_SectionScoresAfterCalls ==
    [][\A p \in Procs :
          (SubmitCommitted(p) \/ GradeCommitted(p)) =>
              LET a == proc[p].attempt_id
                  secs == ExamSections(attempts'[a].exam)
              IN  /\ \A s \in secs :
                         ~IsNull(sectionScores'[<<a, s>>]) =>
                             Val(sectionScores'[<<a, s>>]) =
                                 section_total(answers', a, s)
                  /\ SubmitCommitted(p) =>
                         \A s \in secs : ~IsNull(sectionScores'[<<a, s>>])]_vars

\* the questions attempt a has an answer of
AnsweredQuestions(rows, a) == {q \in Questions : ~IsNull(rows[<<a, q>>])}

\* C21: after a successful submit the questions that have an answer of the
\* attempt are exactly the questions of the sections of the exam.
C21_AnswersAreRequired ==
    [][\A p \in Procs :
          SubmitCommitted(p) =>
              LET a == proc[p].attempt_id
              IN  AnsweredQuestions(answers', a) =
                      all_question_ids(attempts'[a].exam)]_vars

\* payload pl names a section of an exam other than e, or a question that
\* is not in the section it is named under
Misnames(e, pl) ==
    \E i \in 1..Len(pl) :
        /\ pl[i].section \in Sections
        /\ \/ exam_id(pl[i].section) # e
           \/ /\ pl[i].question \in Questions
              /\ pl[i].question \notin SectionQuestions(pl[i].section)

\* the step in which the submit call of worker p, which found its attempt,
\* ends
SubmitEnds(p) ==
    /\ proc[p].op = "submit"
    /\ \/ proc[p].pc \in SubmitTxPcs
       \/ proc[p].pc = "sub_lock" /\ AttemptFound(proc[p].attempt_id, proc[p].user)
    /\ proc'[p].pc = "done"

\* C22: every answer a successful submit stores records a section of the
\* exam of the attempt that holds the question of the answer; a submission
\* that names a section of another exam, or a question that is not in the
\* section it names, is rejected as a whole: it does not succeed and nothing
\* of it is stored.
C22_SectionsChecked ==
    [][\A p \in Procs :
          LET a == proc[p].attempt_id
              pl == proc[p].answers
          IN  /\ SubmitCommitted(p) =>
                     \A i \in 1..Len(pl) :
                         LET row == Val(answers'[<<a, pl[i].question>>])
                         IN  /\ row.section \in ExamSections(attempts'[a].exam)
                             /\ pl[i].question \in SectionQuestions(row.section)
              /\ (SubmitEnds(p) /\ Misnames(attempts[a].exam, pl)) =>
                     /\ proc'[p].res # "submitted_200"
                     /\ StoreUnchanged]_vars

\* C23: there is one answer row for each (attempt, question) and one section
\* score row for each (attempt, section): a submit writes as many answer rows
\* as its list names distinct questions, and when the list names a question
\* more than once the row holds the section, option, essay and mark of the
\* last entry for that question.
C23_LastEntryWins ==
    [][\A p \in Procs :
          SubmitCommitted(p) =>
              LET a == proc[p].attempt_id
                  pl == proc[p].answers
              IN  /\ Cardinality(AnswerLocks(p)) =
                         Cardinality(submitted_question_ids(pl))
                  /\ \A q \in submitted_question_ids(pl) :
                         answers'[<<a, q>>] =
                             Some(SavedAnswer(pl[LastEntry(pl, q)]))]_vars

\* a submit that named questions 1 and 3 twice has succeeded: the answers are
\* those of the second entries
C23_Witness ==
    \E p \in Procs :
        /\ Finished(p, "submit", "submitted_200")
        /\ LET a == proc[p].attempt_id
           IN  /\ ~IsNull(answers[<<a, 3>>])
               /\ Val(answers[<<a, 3>>]).essay_answer = Some("y")
               /\ Val(answers[<<a, 3>>]).section = 4
               /\ Val(answers[<<a, 1>>]).selected_option = Some(1)
               /\ Val(answers[<<a, 1>>]).mark_gained = Some(2)

\* the score of section s of attempt a, for a row that exists
ScoreOf(scores, a, s) == Val(scores[<<a, s>>])

\* worker p commits a grade-answer call on an answer an examiner has graded
Regraded(p) ==
    /\ GradeCommitted(p)
    /\ ~IsNull(Val(proc[p].sa).mark_gained)
    /\ ~IsNull(Val(proc[p].sa).graded_by)

\* C24: a grade-answer call, run alone, on an answer an examiner has graded
\* with the mark m_old changes total_score of the attempt and the SectionScore
\* of the section of the answer by the new mark minus m_old; with the same
\* mark again it changes no mark, no section score, no total and no status.
C24_GradingReplaces ==
    [][\A p \in Procs :
          Regraded(p) =>
              LET a == proc[p].attempt_id
                  s == Val(proc[p].sa).section
                  m_old == Val(Val(proc[p].sa).mark_gained)
                  m_new == Val(proc[p].mark)
              IN  /\ OrZero(attempts'[a].total_score) - TotalOrZero(a) = m_new - m_old
                  /\ ~IsNull(sectionScores[<<a, s>>]) =>
                         ScoreOf(sectionScores', a, s) - ScoreOf(sectionScores, a, s)
                             = m_new - m_old
                  /\ m_new = m_old =>
                         /\ \A k \in AnswerKeys :
                                ~IsNull(answers[k]) =>
                                    Val(answers'[k]).mark_gained = Val(answers[k]).mark_gained
                         /\ sectionScores' = sectionScores
                         /\ attempts'[a].total_score = attempts[a].total_score
                         /\ attempts'[a].status = attempts[a].status]_vars

\* C25: every stored mark lies between 0 and maximum_mark of its question,
\* and no total_score and no SectionScore is negative.
C25_MarksInRange ==
    /\ \A k \in Marked(answers, AnswerKeys) :
           /\ Val(Val(answers[k]).mark_gained) >= 0
           /\ Val(Val(answers[k]).mark_gained) <= maximum_mark(k[2])
    /\ \A a \in 1..Len(attempts) : TotalOrZero(a) >= 0
    /\ \A k \in ScoreKeys : ~IsNull(sectionScores[k]) => Val(sectionScores[k]) >= 0

\* C26: a successful submit leaves the attempt SUBMITTED, also when no answer
\* waits for a mark; an attempt becomes GRADED, and a SUBMITTED attempt stops
\* being SUBMITTED, only in the commit of a grade-answer call on one of its
\* answers.
C26_SubmitNeverGrades ==
    [][/\ \A p \in Procs :
             SubmitCommitted(p) =>
                 attempts'[proc[p].attempt_id].status = "SUBMITTED"
       /\ \A a \in 1..Len(attempts) :
             (\/ attempts[a].status # "GRADED" /\ attempts'[a].status = "GRADED"
              \/ attempts[a].status = "SUBMITTED" /\ attempts'[a].status # "SUBMITTED") =>
                 \E p \in Procs : GradeCommitted(p) /\ proc[p].attempt_id = a]_vars

\* a submit on an exam whose only question is OBJECTIVE has succeeded with
\* pending_grading 0, and the attempt is SUBMITTED
C26_Witness ==
    \E p \in Procs :
        /\ Finished(p, "submit", "submitted_200")
        /\ proc[p].pending_count = 0
        /\ proc[p].graded_count = 1
        /\ attempts[proc[p].attempt_id].status = "SUBMITTED"
        /\ ManualQuestions(attempts[proc[p].attempt_id].exam) = {}

\* submitted_at is set exactly on SUBMITTED and GRADED attempts, and an
\* IN_PROGRESS attempt has no total_score
FieldsAgree(att) ==
    /\ ~IsNull(att.submitted_at) <=> att.status \in {"SUBMITTED", "GRADED"}
    /\ att.status = "IN_PROGRESS" => IsNull(att.total_score)

\* C27: under every interleaving of submit and grade-answer calls,
\* submitted_at of an attempt is set exactly when its status is SUBMITTED or
\* GRADED and an IN_PROGRESS attempt has a null total_score; the attempt row
\* a grade-answer call writes keeps submitted_at of the committed row and
\* has its status or GRADED.
C27_NoStaleAttemptFields ==
    [][/\ \A a \in 1..Len(attempts') : FieldsAgree(attempts'[a])
       /\ \A p \in Procs :
             GradeCommitted(p) =>
                 LET a == proc[p].attempt_id
                 IN  /\ attempts'[a].submitted_at = attempts[a].submitted_at
                     /\ attempts'[a].status \in {"GRADED", attempts[a].status}]_vars

\* the sum of the SectionScore rows of the keys K
RECURSIVE SumScores(_, _)
SumScores(scores, K) ==
    IF K = {} THEN 0
    ELSE LET k == CHOOSE x \in K : TRUE
         IN  (IF IsNull(scores[k]) THEN 0 ELSE Val(scores[k]))
                 + SumScores(scores, K \ {k})

\* C28: after every successful submit and every successful grade-answer call,
\* run one at a time, total_score of the attempt is the sum of its
\* SectionScore rows, also with a question that is in two sections of the
\* exam.
C28_TotalIsSumOfSections ==
    [][\A p \in Procs :
          (SubmitCommitted(p) \/ GradeCommitted(p)) =>
              LET a == proc[p].attempt_id
              IN  OrZero(attempts'[a].total_score) =
                      SumScores(sectionScores', {k \in ScoreKeys : k[1] = a})]_vars

\* the step in which worker p serves a set-questions request of an exam
\* manager on a section that exists, with a question id that does not
SetsUnknown(p) ==
    /\ proc[p].pc = "idle"
    /\ proc'[p].op = "set_questions"
    /\ is_exam_manager(proc'[p].user)
    /\ Val(proc'[p].response) \in Sections
    /\ ~(Range(proc'[p].question_ids) \subseteq Questions)

\* C29: a set-questions call that names a question id that does not exist is
\* answered 400 and leaves the questions of the section as they were.
C29_SetQuestionsRejected ==
    [][\A p \in Procs :
          SetsUnknown(p) =>
              /\ proc'[p].res = "questions_not_found_400"
              /\ UNCHANGED section_questions]_vars

\* worker p serves a submit request on an attempt of an exam whose sections
\* hold no question
SubmitOnEmpty(p) ==
    /\ proc[p].op = "submit"
    /\ proc[p].pc = "sub_lock"
    /\ AttemptFound(proc[p].attempt_id, proc[p].user)
    /\ all_question_ids(attempts[proc[p].attempt_id].exam) = {}

\* C30: a submit on an attempt of an exam without questions is answered 400
\* whatever the answers list, leaves the attempt IN_PROGRESS and stores no
\* answer and no section score; no submit succeeds on an exam without
\* questions.
C30_EmptyExamRejected ==
    [][\A p \in Procs :
          /\ (SubmitOnEmpty(p) /\ proc'[p] # proc[p]) =>
                 /\ proc'[p].pc = "done"
                 /\ proc'[p].res = "no_questions_400"
                 /\ StoreUnchanged
                 /\ attempts'[proc[p].attempt_id].status = "IN_PROGRESS"
          /\ (/\ proc[p].pc = "idle"
              /\ proc'[p].op = "submit"
              /\ proc'[p].attempt_id \in 1..Len(attempts)
              /\ all_question_ids(attempts[proc'[p].attempt_id].exam) = {}) =>
                 /\ StoreUnchanged
                 /\ proc'[p].pc = "done" => proc'[p].res = "invalid_400"
          /\ SubmitCommitted(p) =>
                 all_question_ids(attempts'[proc[p].attempt_id].exam) # {}]_vars

\* a submit on an attempt of exam 2, which has no question, has been answered
\* 400; the attempt is IN_PROGRESS and has no answer and no section score
C30_Witness ==
    \E p \in Procs :
        /\ Finished(p, "submit", "no_questions_400")
        /\ LET a == proc[p].attempt_id
           IN  /\ attempts[a].status = "IN_PROGRESS"
               /\ all_question_ids(attempts[a].exam) = {}
               /\ AnsweredQuestions(answers, a) = {}
               /\ \A s \in Sections : IsNull(sectionScores[<<a, s>>])

====
